---- MODULE Spec2Model ----
(***************************************************************************)
(* Playback controller of PlayPDF (App component): startPlayback,          *)
(* stopPlayback, the per-note timers and the progress interval, together   *)
(* with the handlers that change the score and the tempo.                  *)
(*                                                                         *)
(* Time is the audio clock in milliseconds.  Every timer of the runtime    *)
(* fires at the instant it is due; timers due at the same instant fire in  *)
(* the order they were set.  An instrument load takes any time, and ends   *)
(* either way.                                                             *)
(***************************************************************************)
EXTENDS Integers, Sequences, FiniteSets

\* ---------------------------------------------------------------- bounds
MaxCalls == 2          \* startPlayback calls that pass the score guard
MaxTicks == 4          \* advances of the audio clock
MaxFailures == 1       \* invocations of player.play that throw
MaxNoScoreCalls == 1   \* startPlayback calls that find no score

\* ------------------------------------------------------ program constants
SampleMs == 50         \* period of the progress interval
DefaultBpm == 120      \* tempo used when the score's bpm is falsy
GraceBeats == 1        \* beats added to the last note's end

\* ------------------------------------------------------------------ inputs
Note(p, t, d) == [pitch |-> p, time |-> t, duration |-> d]

ChordNotes == << Note("C4", 0, 1), Note("E4", 0, 1), Note("G4", 1, 1) >>
UnsortedNotes == << Note("A4", 1, 2), Note("B4", 0, 1) >>
EmptyNotes == << >>
\* a note with a negative time among well-formed ones
MalformedNotes == << Note("D4", 0 - 1, 1), Note("F4", 0, 1) >>
\* two notes in order of time, with a rest between them
SparseNotes == << Note("C5", 0, 2), Note("D5", 4, 2) >>

Score(ttl, b, ns) == [title |-> ttl, bpm |-> b, notes |-> ns]

\* the scores the transcription returns, and the slider's positions
ScoreSet == { Score("chord", 1200, ChordNotes),
              Score("unsorted", 1200, UnsortedNotes),
              Score("empty", 1200, EmptyNotes),
              Score("malformed", 1200, MalformedNotes),
              Score("sparse", 2400, SparseNotes),
              Score("negative", 0 - 1200, ChordNotes),
              Score("zero", 0, ChordNotes) }
SliderSet == { 120 }

\* -------------------------------------------------------------- arithmetic
\* 60 / tempo seconds, in milliseconds.  The tempos of the model divide
\* 60000, and none is zero: processFile replaces a bpm of 0 and the slider
\* starts at 60.
BeatMs(bpm) == IF bpm > 0 THEN 60000 \div bpm
               ELSE 0 - (60000 \div (0 - bpm))

Max(a, b) == IF a >= b THEN a ELSE b

\* a quotient num / den of the program, kept exact as a pair
Quot(num, den) == << num, den >>
Zero == << 0, 1 >>
IsZero(q) == q[1] = 0

\* q > x for a quotient q and an integer x, as IEEE division decides it for
\* a denominator that is not zero
QuotGt(q, x) == IF q[2] > 0 THEN q[1] > x * q[2] ELSE q[1] < x * q[2]

VARIABLES
    score,                \* <<>> (null) or <<Score>>
    tempo,                \* the tempo setting
    isPlaying,            \* React state shown to the user
    isPlayingRef,
    currentTime,          \* elapsed beats shown to the user, a quotient
    audioContextRef,      \* FALSE (null) or TRUE (created)
    playerRef,            \* 0 (null) or the call whose player it holds
    playbackTimeoutRef,   \* sequence of timer handles <<call, index>>
    startTimeRef,
    now,                  \* audioContext.currentTime in ms
    calls,                \* the startPlayback calls, in call order
    timerQueue,           \* timers set in the runtime, in the order set
    rendererLog,          \* invocations of player.play, in order
    stoppedUpTo,          \* number of calls begun when stopPlayback last ran
    earlyStopped,         \* calls with no note played when stopPlayback last ran
    noScoreCalls          \* startPlayback calls that found no score

vars == << score, tempo, isPlaying, isPlayingRef, currentTime, audioContextRef,
           playerRef, playbackTimeoutRef, startTimeRef, now, calls, timerQueue,
           rendererLog, stoppedUpTo, earlyStopped, noScoreCalls >>

CallIds == 1 .. Len(calls)

Init ==
    /\ score = << >>
    /\ tempo = DefaultBpm
    /\ isPlaying = FALSE
    /\ isPlayingRef = FALSE
    /\ currentTime = Zero
    /\ audioContextRef = FALSE
    /\ playerRef = 0
    /\ playbackTimeoutRef = << >>
    /\ startTimeRef = 0
    /\ now = 0
    /\ calls = << >>
    /\ timerQueue = << >>
    /\ rendererLog = << >>
    /\ stoppedUpTo = 0
    /\ earlyStopped = {}
    /\ noScoreCalls = 0

\* ------------------------------------------------------------ score, tempo
\* processFile: the parsed score replaces the score and sets the tempo
ProcessFile(parsedScore) ==
    /\ Len(calls) < MaxCalls
    /\ score # << parsedScore >>
    /\ score' = << parsedScore >>
    /\ tempo' = IF parsedScore.bpm = 0 THEN DefaultBpm ELSE parsedScore.bpm
    /\ UNCHANGED << isPlaying, isPlayingRef, currentTime, audioContextRef,
                    playerRef, playbackTimeoutRef, startTimeRef, now, calls,
                    timerQueue, rendererLog, stoppedUpTo, earlyStopped,
                    noScoreCalls >>

\* handleFileChange with a PDF: the score is dropped
HandleFileChange ==
    /\ Len(calls) < MaxCalls
    /\ score # << >>
    /\ score' = << >>
    /\ UNCHANGED << tempo, isPlaying, isPlayingRef, currentTime,
                    audioContextRef, playerRef, playbackTimeoutRef,
                    startTimeRef, now, calls, timerQueue, rendererLog,
                    stoppedUpTo, earlyStopped,
                    noScoreCalls >>

\* the tempo slider
SetTempo(t) ==
    /\ Len(calls) < MaxCalls
    /\ tempo # t
    /\ tempo' = t
    /\ UNCHANGED << score, isPlaying, isPlayingRef, currentTime,
                    audioContextRef, playerRef, playbackTimeoutRef,
                    startTimeRef, now, calls, timerQueue, rendererLog,
                    stoppedUpTo, earlyStopped,
                    noScoreCalls >>

\* ------------------------------------------------------------ timer queue
Remove(q, k) == SubSeq(q, 1, k - 1) \o SubSeq(q, k + 1, Len(q))

\* the timer the runtime runs next: the earliest due, the first set among
\* those
IsNextTimer(k) ==
    /\ k \in 1 .. Len(timerQueue)
    /\ timerQueue[k].due <= now
    /\ \A j \in 1 .. Len(timerQueue) :
         \/ timerQueue[j].due > timerQueue[k].due
         \/ timerQueue[j].due = timerQueue[k].due /\ j >= k

\* setTimeout clamps a negative delay to zero
Delay(ms) == Max(0, ms)

NoteTimers == { t \in { timerQueue[k] : k \in 1 .. Len(timerQueue) } :
                  t.kind = "note" }
ProgressIntervals == { t \in { timerQueue[k] : k \in 1 .. Len(timerQueue) } :
                         t.kind = "progress" }

\* ------------------------------------------------------------ stopPlayback
Handles == { playbackTimeoutRef[k] : k \in 1 .. Len(playbackTimeoutRef) }

\* a stop that leaves the timers set
KeepTimeouts(q) == q

\* playbackTimeoutRef.current.forEach(clearTimeout)
ClearTimeouts(q) ==
    LET Kept(t) == ~(t.kind = "note" /\ << t.call, t.idx >> \in Handles)
    IN SelectSeq(q, Kept)

PlayedCalls == { rendererLog[k].call : k \in 1 .. Len(rendererLog) }

\* the body of stopPlayback, run on the timer queue q
StopEffects(q) ==
    /\ isPlayingRef' = FALSE
    /\ isPlaying' = FALSE
    /\ timerQueue' = ClearTimeouts(q)
    /\ playbackTimeoutRef' = << >>
    /\ currentTime' = Zero
    /\ stoppedUpTo' = Len(calls)
    /\ earlyStopped' = CallIds \ PlayedCalls
    /\ UNCHANGED noScoreCalls

\* (playerRef.current.stop() silences the notes already sounding; it changes
\* nothing the controller reads)
StopPlayback ==
    /\ StopEffects(timerQueue)
    /\ UNCHANGED << score, tempo, audioContextRef, playerRef, startTimeRef,
                    now, calls, rendererLog >>

\* ----------------------------------------------------------- startPlayback
\* a startPlayback that creates the AudioContext before it looks at the score
NoScoreReturnAfterAudio ==
    /\ audioContextRef' = TRUE
    /\ UNCHANGED << score, tempo, isPlaying, isPlayingRef, currentTime,
                    playerRef, playbackTimeoutRef, startTimeRef, now, calls,
                    timerQueue, rendererLog, stoppedUpTo, earlyStopped >>

\* if (!score) return
NoScoreReturn ==
    UNCHANGED << score, tempo, isPlaying, isPlayingRef, currentTime,
                 audioContextRef, playerRef, playbackTimeoutRef, startTimeRef,
                 now, calls, timerQueue, rendererLog, stoppedUpTo,
                 earlyStopped >>

\* the synchronous part, up to the await of Soundfont.instrument
StartPlayback ==
    IF score = << >>
    THEN /\ noScoreCalls < MaxNoScoreCalls
         /\ noScoreCalls' = noScoreCalls + 1
         /\ NoScoreReturn
    ELSE /\ Len(calls) < MaxCalls
         /\ audioContextRef' = TRUE
         /\ isPlaying' = TRUE
         /\ isPlayingRef' = TRUE
         /\ startTimeRef' = now
         /\ calls' = Append(calls, [notes |-> score[1].notes, tempo |-> tempo,
                                    status |-> "loading", startAt |-> now,
                                    resolvedAt |-> 0, sampled |-> FALSE,
                                    sampledAfterStop |-> FALSE,
                                    completed |-> FALSE, completedAt |-> Zero,
                                    completedAfterStop |-> FALSE])
         /\ UNCHANGED << score, tempo, currentTime, playerRef,
                         playbackTimeoutRef, now, timerQueue, rendererLog,
                         stoppedUpTo, earlyStopped, noScoreCalls >>

\* const beatDuration = 60 / tempo, with the tempo the call was made with
BeatDurationLive(c) == BeatMs(tempo)
BeatDuration(c) == BeatMs(calls[c].tempo)

\* note.time * beatDuration * 1000: beats to milliseconds
BeatsToMs(b, bd) == b * bd

\* (currentTime - startTimeRef.current) / beatDuration: time to beats
MsToBeatsTimes(ms, bd) == Quot(ms * bd, 1)
MsToBeats(ms, bd) == Quot(ms, bd)

\* the timers of score.notes.forEach, in the order of the array
RECURSIVE ScheduleNotes(_, _, _, _)
ScheduleNotes(c, ns, bd, n) ==
    IF n = 0 THEN << >>
    ELSE Append(ScheduleNotes(c, ns, bd, n - 1),
                [kind |-> "note", call |-> c, idx |-> n,
                 due |-> now + Delay(BeatsToMs(ns[n].time, bd))])

RECURSIVE HandlesOf(_, _)
HandlesOf(c, n) == IF n = 0 THEN << >>
                   ELSE Append(HandlesOf(c, n - 1), << c, n >>)

\* the continuation after the await, when the instrument has loaded
LoadResolve(c) ==
    /\ c \in CallIds
    /\ calls[c].status = "loading"
    /\ LET ns == calls[c].notes
           bd == BeatDuration(c)
       IN /\ playerRef' = c
          /\ timerQueue' = timerQueue \o ScheduleNotes(c, ns, bd, Len(ns))
                             \o << [kind |-> "progress", call |-> c, idx |-> 0,
                                    due |-> now + SampleMs] >>
          /\ playbackTimeoutRef' = playbackTimeoutRef \o HandlesOf(c, Len(ns))
    /\ calls' = [calls EXCEPT ![c].status = "resolved", ![c].resolvedAt = now]
    /\ UNCHANGED << score, tempo, isPlaying, isPlayingRef, currentTime,
                    audioContextRef, startTimeRef, now, rendererLog,
                    stoppedUpTo, earlyStopped,
                    noScoreCalls >>

\* a catch block that reports the error and leaves the session as it is
LoadRejectNoStop(c) ==
    /\ c \in CallIds
    /\ calls[c].status = "loading"
    /\ calls' = [calls EXCEPT ![c].status = "rejected"]
    /\ UNCHANGED << score, tempo, isPlaying, isPlayingRef, currentTime,
                    audioContextRef, playerRef, playbackTimeoutRef,
                    startTimeRef, now, timerQueue, rendererLog, stoppedUpTo,
                    earlyStopped,
                    noScoreCalls >>

\* the catch block, when the instrument load fails
LoadReject(c) ==
    /\ c \in CallIds
    /\ calls[c].status = "loading"
    /\ StopEffects(timerQueue)
    /\ calls' = [calls EXCEPT ![c].status = "rejected"]
    /\ UNCHANGED << score, tempo, audioContextRef, playerRef, startTimeRef,
                    now, rendererLog >>

\* ------------------------------------------------------------- note timers
\* the queue after a timer set by setInterval has run: it is set again one
\* period later, behind the timers already set
Rearm(k) ==
    Append(Remove(timerQueue, k),
           [timerQueue[k] EXCEPT !.due = timerQueue[k].due + SampleMs])

\* the queue after a timer set by setTimeout has run
AfterTimeoutRepeating(k) == Rearm(k)
AfterTimeout(k) == Remove(timerQueue, k)

\* a call of player.play with the instant the session start and the note's
\* beat give, in place of the clock
PlayAtComputed(c, i) ==
    LET n == calls[c].notes[i]
    IN [pitch |-> n.pitch,
        at |-> calls[c].startAt + BeatsToMs(n.time, BeatDuration(c)),
        duration |-> BeatsToMs(n.duration, BeatDuration(c))]

\* player.play(note.pitch, currentTime, { duration }): its arguments
Play(c, i) ==
    LET n == calls[c].notes[i]
    IN [pitch |-> n.pitch, at |-> now,
        duration |-> BeatsToMs(n.duration, BeatDuration(c))]

\* the entry of the renderer log for that invocation: the arguments, and
\* what held when the timer ran
\* what held when the timer ran, and whether the invocation threw
LogEntry(c, i, th) ==
    LET a == Play(c, i)
    IN [call |-> c, idx |-> i, pitch |-> a.pitch, at |-> a.at,
        duration |-> a.duration, firedAt |-> now,
        afterStop |-> c <= stoppedUpTo, superseded |-> c < Len(calls),
        playing |-> isPlaying, threw |-> th]

\* the invocations of player.play that have thrown
Thrown == { k \in 1 .. Len(rendererLog) : rendererLog[k].threw }

\* the timer callback returns: the controller is as it was, q is the queue
CallbackReturns(q) ==
    /\ timerQueue' = q
    /\ UNCHANGED << isPlaying, isPlayingRef, currentTime, playbackTimeoutRef,
                    stoppedUpTo, earlyStopped,
                    noScoreCalls >>

\* an exception of player.play handled as the catch block of startPlayback
\* handles one
PlayThrowsCaught(q) == StopEffects(q)

\* player.play throws inside the timer callback: the try block of
\* startPlayback was left when the timers were set, so the exception leaves
\* the callback and the runtime reports it
PlayThrows(q) == CallbackReturns(q)

\* if (!isPlayingRef.current) return
ShouldPlayAlways == TRUE
\* a guard that looks at the audio context in place of the flag
ShouldPlayWithAudio == audioContextRef
ShouldPlay == isPlayingRef

\* the callback of one note's setTimeout; a timeout runs once
NoteTimer(k) ==
    /\ IsNextTimer(k)
    /\ timerQueue[k].kind = "note"
    /\ IF ShouldPlay
       THEN \E th \in BOOLEAN :
              /\ th => Cardinality(Thrown) < MaxFailures
              /\ rendererLog' =
                   Append(rendererLog,
                          LogEntry(timerQueue[k].call, timerQueue[k].idx, th))
              /\ IF th THEN PlayThrows(AfterTimeout(k))
                       ELSE CallbackReturns(AfterTimeout(k))
       ELSE /\ rendererLog' = rendererLog
            /\ CallbackReturns(AfterTimeout(k))
    /\ UNCHANGED << score, tempo, audioContextRef, playerRef, startTimeRef,
                    now, calls >>

\* ------------------------------------------------------- progress interval
Elapsed(c) == MsToBeats(now - startTimeRef, BeatDuration(c))

\* if (!isPlayingRef.current) { clearInterval; return }
SamplerActiveAlways == TRUE
SamplerActive == isPlayingRef

\* the calls once the interval of call c has reported a progress value
Sampled(c) ==
    [calls EXCEPT ![c].sampled = TRUE,
                  ![c].sampledAfterStop = @ \/ c <= stoppedUpTo]

\* lastNote.time + lastNote.duration + 1
LastNoteEnd(ns) == ns[Len(ns)].time + ns[Len(ns)].duration + GraceBeats

\* one run of the setInterval callback
ProgressInterval(k) ==
    /\ IsNextTimer(k)
    /\ timerQueue[k].kind = "progress"
    /\ LET c == timerQueue[k].call
           ns == calls[c].notes
       IN IF ~SamplerActive
          THEN \* clearInterval; return
               /\ timerQueue' = Remove(timerQueue, k)
               /\ UNCHANGED << isPlaying, isPlayingRef, currentTime, calls,
                               playbackTimeoutRef, stoppedUpTo, earlyStopped,
                    noScoreCalls >>
          ELSE IF Len(ns) = 0
          THEN \* lastNote is undefined: reading lastNote.time throws after
               \* setCurrentTime, and the interval stays
               /\ currentTime' = Elapsed(c)
               /\ timerQueue' = Rearm(k)
               /\ calls' = Sampled(c)
               /\ UNCHANGED << isPlaying, isPlayingRef, playbackTimeoutRef,
                               stoppedUpTo, earlyStopped,
                    noScoreCalls >>
          ELSE IF QuotGt(Elapsed(c), LastNoteEnd(ns))
          THEN \* setCurrentTime; stopPlayback(); clearInterval
               /\ StopEffects(Remove(timerQueue, k))
               /\ calls' = [Sampled(c) EXCEPT
                              ![c].completed = TRUE,
                              ![c].completedAt = Elapsed(c),
                              ![c].completedAfterStop = c <= stoppedUpTo]
          ELSE /\ currentTime' = Elapsed(c)
               /\ timerQueue' = Rearm(k)
               /\ calls' = Sampled(c)
               /\ UNCHANGED << isPlaying, isPlayingRef, playbackTimeoutRef,
                               stoppedUpTo, earlyStopped,
                    noScoreCalls >>
    /\ UNCHANGED << score, tempo, audioContextRef, playerRef, startTimeRef,
                    now, rendererLog >>

\* ------------------------------------------------------------------- clock
\* the audio clock runs once the AudioContext exists; it moves on when every
\* timer due has run
Advance ==
    /\ audioContextRef
    /\ now < MaxTicks * SampleMs
    /\ \A k \in 1 .. Len(timerQueue) : timerQueue[k].due > now
    /\ now' = now + SampleMs
    /\ UNCHANGED << score, tempo, isPlaying, isPlayingRef, currentTime,
                    audioContextRef, playerRef, playbackTimeoutRef,
                    startTimeRef, calls, timerQueue, rendererLog,
                    stoppedUpTo, earlyStopped,
                    noScoreCalls >>

Next ==
    \/ \E s \in ScoreSet : ProcessFile(s)
    \/ HandleFileChange
    \/ \E t \in SliderSet : SetTempo(t)
    \/ StopPlayback
    \/ StartPlayback
    \/ \E c \in CallIds : LoadResolve(c)
    \/ \E c \in CallIds : LoadReject(c)
    \/ \E k \in 1 .. Len(timerQueue) : NoteTimer(k)
    \/ \E k \in 1 .. Len(timerQueue) : ProgressInterval(k)
    \/ Advance

Spec == Init /\ [][Next]_vars

\* the runtime runs every timer that is due, the audio clock of a created
\* AudioContext keeps running, and an instrument load ends one way or the
\* other
Fairness ==
    /\ WF_vars(Advance)
    /\ WF_vars(\E k \in 1 .. Len(timerQueue) : NoteTimer(k))
    /\ WF_vars(\E k \in 1 .. Len(timerQueue) : ProgressInterval(k))
    /\ \A c \in 1 .. MaxCalls : WF_vars(LoadResolve(c) \/ LoadReject(c))

FairSpec == Spec /\ Fairness

\* ================================================================== claims
Plays == { rendererLog[k] : k \in 1 .. Len(rendererLog) }
QueuedTimers == { timerQueue[k] : k \in 1 .. Len(timerQueue) }
NoteOf(p) == calls[p.call].notes[p.idx]

\* C1: once stopPlayback has run for a session, no note of a startPlayback
\* call made before that stop is played again, whatever start, load and timer
\* events follow.
C1_NoPlayAfterStop == \A p \in Plays : ~p.afterStop

\* C2: when startPlayback is called again with no stopPlayback since the
\* earlier call, the earlier call is torn down: none of its notes is played
\* from then on and none of its timers stays queued.
C2_SecondStartSupersedes ==
    /\ \A p \in Plays : p.superseded => p.afterStop
    /\ \A t \in QueuedTimers :
         t.call < Len(calls) => t.call <= stoppedUpTo

\* C3: every note of a session with a positive tempo is played at the
\* instant sessionStart + time * (60 / tempo), sessionStart being the
\* instant startPlayback stored in startTimeRef.
C3_DispatchInstant ==
    \A p \in Plays :
        calls[p.call].tempo > 0 =>
            p.at = calls[p.call].startAt
                     + NoteOf(p).time * BeatMs(calls[p.call].tempo)

\* the latest end of any note of ns, in beats
RECURSIVE EndBeat(_, _)
EndBeat(ns, n) == IF n = 0 THEN 0
                  ELSE Max(EndBeat(ns, n - 1), ns[n].time + ns[n].duration)

\* C4: the progress interval ends playback at no sample earlier than the
\* first one whose elapsed beats exceed the maximum over all notes of
\* time + duration, plus one grace beat.
C4_CompletionAfterEndBeat ==
    \A c \in CallIds :
        calls[c].completed =>
            QuotGt(calls[c].completedAt,
                   EndBeat(calls[c].notes, Len(calls[c].notes)) + GraceBeats)

\* C5: a start with an empty notes list completes at once: when its load
\* has ended the session is completed and no progress interval of it is
\* set, so that it takes no sample.
C5_EmptyScoreCompletesAtOnce ==
    \A c \in CallIds :
        (Len(calls[c].notes) = 0 /\ calls[c].status = "resolved") =>
            /\ calls[c].completed
            /\ \A t \in ProgressIntervals : t.call # c

\* C6: no note is played twice for one startPlayback call: the renderer log
\* holds at most one entry for each pair of call and note index.
C6_NoNoteTwice ==
    \A j, k \in 1 .. Len(rendererLog) :
        (rendererLog[j].call = rendererLog[k].call
           /\ rendererLog[j].idx = rendererLog[k].idx) => j = k

\* two calls have both played their first note, and one call has played a
\* second note as well
C6_Witness ==
    \E p, q, r \in Plays :
        /\ p.call # q.call /\ p.idx = 1 /\ q.idx = 1
        /\ r.call = p.call /\ r.idx # 1

\* C7: when stopPlayback last ran before any note of a call was played and
\* no startPlayback has run since, no note of that call is played, also
\* when its load ends and its timers run after the stop.
C7_EarlyStopPlaysNothing ==
    \A c \in earlyStopped :
        Len(calls) = stoppedUpTo => c \notin PlayedCalls

\* a call stopped while loading, whose load then succeeded and whose note
\* timers have all run since
C7_Witness ==
    \E c \in earlyStopped :
        /\ Len(calls) = stoppedUpTo
        /\ calls[c].status = "resolved"
        /\ Len(calls[c].notes) > 0
        /\ << c, 1 >> \in Handles
        /\ \A t \in NoteTimers : t.call # c

\* C8: while the instrument load of a startPlayback call is pending the
\* controller is not shown as playing.
C8_IdleWhileLoading ==
    \A c \in CallIds : calls[c].status = "loading" => ~isPlaying

C10_InvalidTempoRejected ==
    /\ \A t \in QueuedTimers : calls[t.call].tempo > 0
    /\ \A p \in Plays : calls[p.call].tempo > 0
    /\ (Len(calls) > 0 /\ calls[Len(calls)].tempo <= 0
          /\ stoppedUpTo < Len(calls)) => ~isPlaying

\* C11: a note whose time or duration is negative is dropped: the renderer
\* is never invoked for it.
C11_MalformedNoteDropped ==
    \A p \in Plays : NoteOf(p).time >= 0 /\ NoteOf(p).duration >= 0

\* C12: stopPlayback called while the controller is idle leaves the state
\* of the controller as it is.
C12_StopWhileIdleIsNoOp ==
    [][(~isPlaying /\ StopPlayback) =>
          UNCHANGED << isPlaying, isPlayingRef, currentTime,
                       playbackTimeoutRef, timerQueue >>]_vars

\* C13: the step in which the progress interval of a call signals the end
\* of playback leaves what stopPlayback leaves: the controller idle, no
\* handle in playbackTimeoutRef, no note timer queued and the elapsed
\* position zero; and the interval of that call is cleared.
C13_CompletionTearsDown ==
    [][\A c \in CallIds :
          (~calls[c].completed /\ calls'[c].completed) =>
              /\ ~isPlaying' /\ ~isPlayingRef'
              /\ playbackTimeoutRef' = << >>
              /\ NoteTimers' = {}
              /\ IsZero(currentTime')
              /\ \A t \in ProgressIntervals' : t.call # c]_vars

\* a call has completed while the other call had set its note timers and
\* not played them all
C13_Witness ==
    \E c, d \in CallIds :
        /\ calls[c].completed
        /\ d # c /\ calls[d].status = "resolved"
        /\ \E i \in 1 .. Len(calls[d].notes) :
             \A p \in Plays : ~(p.call = d /\ p.idx = i)
        /\ stoppedUpTo = Len(calls) /\ ~isPlaying
        /\ NoteTimers = {}

\* C14: the end of playback is signalled once for a session: the progress
\* interval of a call does not signal completion once stopPlayback has run
\* for that call.
C14_CompletionOncePerSession ==
    \A c \in CallIds : ~calls[c].completedAfterStop

\* C15: whenever the controller is idle the elapsed position is zero.
C15_IdleAtZero == ~isPlaying => IsZero(currentTime)

\* the controller is idle after an interval had reported a position that is
\* not zero, and an interval is still set
C15_Witness ==
    /\ ~isPlaying
    /\ \E c \in CallIds :
         /\ calls[c].sampled /\ ~calls[c].completed
         /\ now > calls[c].startAt
         /\ \E t \in ProgressIntervals : t.call = c

\* C16: the tempo of a session is the one its startPlayback call was made
\* with, whatever the tempo setting becomes later: the delay of each of its
\* note timers, the duration passed to the renderer and the beat length of
\* the elapsed position all come from that tempo.
C16_TempoFixedAtStart ==
    /\ \A t \in NoteTimers :
         t.due = calls[t.call].resolvedAt
                   + Delay(calls[t.call].notes[t.idx].time
                             * BeatMs(calls[t.call].tempo))
    /\ \A p \in Plays :
         p.duration = NoteOf(p).duration * BeatMs(calls[p.call].tempo)
    /\ ~IsZero(currentTime) =>
         \E c \in CallIds : /\ calls[c].sampled
                            /\ currentTime[2] = BeatMs(calls[c].tempo)

\* the tempo setting differs from the tempo of a playing call that has
\* played a note and still has a note timer queued
C16_Witness ==
    \E c \in CallIds :
        /\ isPlaying
        /\ calls[c].tempo # tempo
        /\ c \in PlayedCalls
        /\ calls[c].sampled
        /\ \E t \in NoteTimers : t.call = c

\* a quotient equal to an integer
QuotEq(q, x) == q[1] = x * q[2]

C18_SamplerStopsOnCancel ==
    \A c \in CallIds : ~calls[c].sampledAfterStop

\* C19: whenever the controller is idle no handle is in playbackTimeoutRef,
\* no note timer is queued and no progress interval is set.
C19_IdleHasNothingPending ==
    ~isPlaying => /\ playbackTimeoutRef = << >>
                  /\ NoteTimers = {}
                  /\ ProgressIntervals = {}

\* C20: a note timer that runs while the controller is playing invokes the
\* renderer with the note's pitch, the clock reading of that moment and the
\* note's duration in beats times 60 / tempo.
C20_PlayArguments ==
    \A p \in Plays :
        p.playing =>
            /\ p.pitch = NoteOf(p).pitch
            /\ p.at = p.firedAt
            /\ p.duration = NoteOf(p).duration * BeatMs(calls[p.call].tempo)

\* a note was played at a clock reading other than the instant its beat
\* gives from the session start
C20_Witness ==
    \E p \in Plays :
        /\ p.playing
        /\ calls[p.call].tempo > 0
        /\ NoteOf(p).time > 0
        /\ p.firedAt # calls[p.call].startAt
                         + NoteOf(p).time * BeatMs(calls[p.call].tempo)

\* C21: an invocation of player.play that throws while the controller is
\* playing is isolated: the step leaves the controller playing, every other
\* note timer queued, every progress interval set with its handles and the
\* elapsed position as they were; and no queued timer is ever left behind
\* by the clock, so that the timers left still run.
C21_PlayFailureIsolated ==
    /\ [][(Len(rendererLog') = Len(rendererLog) + 1
            /\ rendererLog'[Len(rendererLog')].threw) =>
              LET p == rendererLog'[Len(rendererLog')]
              IN /\ isPlaying' /\ isPlayingRef'
                 /\ NoteTimers' = { t \in NoteTimers :
                                      ~(t.call = p.call /\ t.idx = p.idx) }
                 /\ ProgressIntervals' = ProgressIntervals
                 /\ playbackTimeoutRef' = playbackTimeoutRef
                 /\ currentTime' = currentTime]_vars
    /\ [](\A t \in QueuedTimers : t.due >= now)

\* an invocation threw, a later note of the same call was played after it,
\* and the progress interval of that call went on to signal the end
C21_Witness ==
    \E j, k \in 1 .. Len(rendererLog) :
        /\ j < k
        /\ rendererLog[j].threw /\ rendererLog[j].playing
        /\ rendererLog[k].call = rendererLog[j].call
        /\ rendererLog[k].firedAt > rendererLog[j].firedAt
        /\ calls[rendererLog[j].call].completed
        /\ Len(calls) = 1

\* every note of ns has a time that is not negative and a positive duration
WellFormed(ns) ==
    \A i \in 1 .. Len(ns) : ns[i].time >= 0 /\ ns[i].duration > 0

\* C22: in a session of a well-formed score that is not empty, with a
\* positive tempo, started alone and not stopped by stopPlayback from
\* outside, every note has been triggered when the progress interval
\* signals the end: the end of playback cancels no note timer.
C22_AllNotesBeforeCompletion ==
    (/\ Len(calls) = 1
     /\ calls[1].completed
     /\ calls[1].tempo > 0
     /\ Len(calls[1].notes) > 0
     /\ WellFormed(calls[1].notes)) =>
        \A i \in 1 .. Len(calls[1].notes) :
            \E p \in Plays : p.call = 1 /\ p.idx = i

\* the last instant of the clock the model follows
Horizon == MaxTicks * SampleMs

\* the clock has reached the horizon before the latest call could take a
\* sample, or before the time its score takes, the grace beat included, has
\* passed since the session start
CutShort ==
    /\ now = Horizon
    /\ Len(calls) > 0
    /\ LET c == Len(calls)
           ns == calls[c].notes
       IN /\ calls[c].status = "resolved"
          /\ \/ calls[c].resolvedAt = Horizon
             \/ ~QuotGt(Elapsed(c), EndBeat(ns, Len(ns)) + GraceBeats)

\* C23: every session started with a positive tempo ends by itself: when
\* the controller is playing and the latest call has a positive tempo, the
\* controller becomes idle later on, unless the clock of the model stops
\* before the session can be over.
C23_SessionEnds ==
    []((isPlaying /\ Len(calls) > 0 /\ calls[Len(calls)].tempo > 0)
         => <>(~isPlaying \/ CutShort))

\* C24: player.play is invoked only while the controller is playing: a note
\* timer that runs while the playing flag is false leaves the renderer log
\* as it is, and every invocation in the log was made while playing.
C24_PlayOnlyWhilePlaying ==
    /\ [][(~isPlayingRef /\ \E k \in 1 .. Len(timerQueue) : NoteTimer(k))
            => rendererLog' = rendererLog]_vars
    /\ [](\A p \in Plays : p.playing)

\* the timer of a call's first note has run without an invocation, its
\* handle never cleared, and a later note of the same call was played
C24_Witness ==
    \E c \in CallIds :
        /\ << c, 1 >> \in Handles
        /\ \A t \in NoteTimers : ~(t.call = c /\ t.idx = 1)
        /\ \A p \in Plays : ~(p.call = c /\ p.idx = 1)
        /\ \E p \in Plays : p.call = c /\ p.idx > 1

\* call c began before stopPlayback last ran, and a call has begun since
Superseded(c) == c <= stoppedUpTo /\ stoppedUpTo < Len(calls)

\* C25: the end of the load of a superseded call does not touch the session
\* begun after it: when it fails, the controller stays playing and the
\* timers and handles stay as they are; when it succeeds, playerRef keeps
\* the player it held.
C25_SupersededLoadInert ==
    [][\A c \in CallIds :
          (Superseded(c) /\ calls[c].status = "loading") =>
              /\ calls'[c].status = "rejected" =>
                    /\ isPlaying' /\ isPlayingRef'
                    /\ timerQueue' = timerQueue
                    /\ playbackTimeoutRef' = playbackTimeoutRef
              /\ calls'[c].status = "resolved" =>
                    playerRef' = playerRef]_vars

\* C26: startPlayback called while no score is loaded changes nothing: the
\* playing state, startTimeRef, the timers and their handles, the
\* AudioContext and the elapsed position stay as they are, no instrument
\* load is begun and the renderer is not invoked.
C26_StartWithoutScoreIsNoOp ==
    [][(score = << >> /\ StartPlayback) =>
          UNCHANGED << isPlaying, isPlayingRef, startTimeRef, timerQueue,
                       playbackTimeoutRef, audioContextRef, playerRef,
                       currentTime, calls, rendererLog >>]_vars

\* startPlayback has been called with no score loaded, before any
\* AudioContext was created
C26_Witness ==
    /\ noScoreCalls > 0
    /\ score = << >>
    /\ ~audioContextRef

====
